---- MODULE Spec2Model ----
(***************************************************************************)
(* A model of src/book_utils.py: the analysis of an ebook (analyse_ebook,  *)
(* with process_file and sha256sum in front of it and clean_dir and        *)
(* gethistogram behind it), and the histogram helpers getmaximumfreq,      *)
(* generatebins and getbins.                                               *)
(*                                                                         *)
(* Python strings that the code builds and takes apart again (the bin      *)
(* labels "0-500", the file names whose suffix clean_dir looks at) are     *)
(* sequences of one-character strings. Python lists are sequences; a       *)
(* Python index i (0-based) is position i+1 of the sequence.               *)
(***************************************************************************)
EXTENDS Integers, Sequences, FiniteSets, TLC

(***************************************************************************)
(* Bounds of the model.                                                    *)
(***************************************************************************)
MaxTextLen == 2
MaxTokens == 3
MaxBins == 3

(***************************************************************************)
(* Program constants.                                                      *)
(***************************************************************************)
BinFirstUpper == 500
BinStep == 500

Chars == {"a", "b"}
Words == {"neko", "ga"}

NoData == [none |-> TRUE]
NaN == "nan"

\* The entries a frequency list can hold for a word (frequency, stars).
FrequencyEntries ==
    { [frequency |-> 100, stars |-> 5],
      [frequency |-> 500, stars |-> 3],
      [frequency |-> 1200, stars |-> 4] }

SeqsUpTo(S, n) == UNION { [1..k -> S] : k \in 0..n }

(***************************************************************************)
(* Python built-ins used by the code.                                      *)
(***************************************************************************)
\* set(s)
set(s) == { s[i] : i \in DOMAIN s }

\* A count that stops at the first occurrence.
count_first_only(s, x) == IF \E i \in DOMAIN s : s[i] = x THEN 1 ELSE 0

\* list.count(x)
count(s, x) == Cardinality({ i \in DOMAIN s : s[i] = x })

\* The orders in which iterating over a Python set can yield its elements.
\* The order of a set of strings follows the strings' hashes, which are
\* salted per process (PYTHONHASHSEED): any order can come out.
Enumerations(S) ==
    { e \in [1..Cardinality(S) -> S] : \A i, j \in 1..Cardinality(S) : e[i] = e[j] => i = j }

\* Insert the pair t into the sequence s (sorted by t[2], descending) after
\* every pair whose count is >= t's: the place a stable sort gives it.
RECURSIVE InsertDesc(_, _)
InsertDesc(s, t) ==
    IF s = <<>> THEN <<t>>
    ELSE IF s[1][2] >= t[2] THEN <<s[1]>> \o InsertDesc(Tail(s), t)
    ELSE <<t>> \o s

\* A sort that leaves out reverse=True: ascending by count.
RECURSIVE InsertAsc(_, _)
InsertAsc(s, t) ==
    IF s = <<>> THEN <<t>>
    ELSE IF s[1][2] <= t[2] THEN <<s[1]>> \o InsertAsc(Tail(s), t)
    ELSE <<t>> \o s

RECURSIVE sorted_not_reversed(_)
sorted_not_reversed(s) ==
    IF s = <<>> THEN <<>>
    ELSE InsertAsc(sorted_not_reversed(SubSeq(s, 1, Len(s) - 1)), s[Len(s)])

\* sorted(s, key=lambda tup: tup[1], reverse=True): stable, so pairs with
\* equal counts keep the order they have in s.
RECURSIVE sorted(_)
sorted(s) ==
    IF s = <<>> THEN <<>>
    ELSE InsertDesc(sorted(SubSeq(s, 1, Len(s) - 1)), s[Len(s)])

Digits == <<"0", "1", "2", "3", "4", "5", "6", "7", "8", "9">>

\* str(n) for n >= 0
RECURSIVE str(_)
str(n) ==
    IF n < 10 THEN <<Digits[n + 1]>>
    ELSE str(n \div 10) \o <<Digits[(n % 10) + 1]>>

\* int(s) for a string of decimal digits
RECURSIVE int(_)
int(s) ==
    IF Len(s) = 1 THEN (CHOOSE d \in 0..9 : Digits[d + 1] = s[1])
    ELSE 10 * int(SubSeq(s, 1, Len(s) - 1))
         + (CHOOSE d \in 0..9 : Digits[d + 1] = s[Len(s)])

\* s.split(sep): the fields of s between the occurrences of sep
RECURSIVE split(_, _)
split(s, sep) ==
    IF \A i \in DOMAIN s : s[i] # sep THEN <<s>>
    ELSE LET i == CHOOSE k \in DOMAIN s :
                      s[k] = sep /\ \A j \in 1..(k - 1) : s[j] # sep
         IN <<SubSeq(s, 1, i - 1)>> \o split(SubSeq(s, i + 1, Len(s)), sep)

\* list[i] with a Python index: negative indices count from the end, and an
\* index outside -len..len-1 raises IndexError.
IndexInRange(lst, i) == -Len(lst) <= i /\ i < Len(lst)
getitem(lst, i) == lst[IF i < 0 THEN i + Len(lst) + 1 ELSE i + 1]

max(a, b) == IF a >= b THEN a ELSE b

(***************************************************************************)
(* The histogram helpers.                                                  *)
(***************************************************************************)
\* getmaximumfreq(word_list): the highest 'netflix' frequency, 0 if none.
RECURSIVE getmaximumfreq(_)
getmaximumfreq(word_list) ==
    IF word_list = <<>> THEN 0
    ELSE LET maximum_num == getmaximumfreq(SubSeq(word_list, 1, Len(word_list) - 1))
             i == word_list[Len(word_list)]
         IN IF "netflix" \in DOMAIN i.frequency
            THEN max(maximum_num, i.frequency["netflix"].frequency)
            ELSE maximum_num

\* The loop with b < maximum_num for its condition.
RECURSIVE generatebins_loop_strict(_, _, _, _)
generatebins_loop_strict(a, b, lst, maximum_num) ==
    IF b < maximum_num
    THEN generatebins_loop_strict(b, b + BinStep, Append(lst, str(a) \o <<"-">> \o str(b)),
                                  maximum_num)
    ELSE lst

\* The while loop of generatebins, from the state (a, b, lst).
RECURSIVE generatebins_loop(_, _, _, _)
generatebins_loop(a, b, lst, maximum_num) ==
    IF b <= maximum_num
    THEN generatebins_loop(b, b + BinStep, Append(lst, str(a) \o <<"-">> \o str(b)), maximum_num)
    ELSE lst

\* generatebins(maximum_num): the labels "0-500", "500-1000", ...
generatebins(maximum_num) == generatebins_loop(0, BinFirstUpper, <<>>, maximum_num)

\* The loop with the upper edge of a bin inside the bin.
RECURSIVE getbins_loop_inclusive(_, _, _)
getbins_loop_inclusive(i, freq_num, bins) ==
    IF i >= Len(bins) THEN Len(bins) - 1
    ELSE LET lst == split(getitem(bins, i), "-")
         IN IF freq_num >= int(getitem(lst, 0)) /\ freq_num <= int(getitem(lst, 1))
            THEN i
            ELSE getbins_loop_inclusive(i + 1, freq_num, bins)

\* The for loop of getbins, from index i (0-based).
RECURSIVE getbins_loop(_, _, _)
getbins_loop(i, freq_num, bins) ==
    IF i >= Len(bins) THEN Len(bins) - 1
    ELSE LET lst == split(getitem(bins, i), "-")
         IN IF freq_num >= int(getitem(lst, 0)) /\ freq_num < int(getitem(lst, 1))
            THEN i
            ELSE getbins_loop(i + 1, freq_num, bins)

\* getbins(freq_num, bins): the (0-based) index of the bin freq_num falls
\* into, len(bins)-1 when no bin holds it.
getbins(freq_num, bins) == getbins_loop(0, freq_num, bins)

\* A regular file of the file system, at a path (the sequence of its
\* components, relative to the working directory).
File(path) == [path |-> path, kind |-> "file"]

\* file='Histogram.html', in the working directory
HistogramHtml == << <<"H", "i", "s", "t", "o", "g", "r", "a", "m", ".", "h", "t", "m", "l">> >>

\* The second loop of gethistogram: one row per word that has a 'netflix'
\* entry. df.append is looked up before its argument is evaluated: where
\* DataFrame has no append (pandas >= 2.0) that raises AttributeError;
\* where it has, bins[...] raises IndexError when the index is out of range.
RECURSIVE gethistogram_words(_, _, _, _)
gethistogram_words(df, word_list, bins, has_append) ==
    IF word_list = <<>> THEN [raised |-> "", df |-> df]
    ELSE LET i == Head(word_list)
         IN IF "netflix" \in DOMAIN i.frequency
            THEN IF ~has_append THEN [raised |-> "AttributeError", df |-> df]
                 ELSE LET idx == getbins(i.frequency["netflix"].frequency, bins)
                      IN IF IndexInRange(bins, idx)
                         THEN gethistogram_words(
                                  Append(df, [Range |-> getitem(bins, idx),
                                              Stars |-> i.frequency["netflix"].stars]),
                                  Tail(word_list), bins, has_append)
                         ELSE [raised |-> "IndexError", df |-> df]
            ELSE gethistogram_words(df, Tail(word_list), bins, has_append)

\* gethistogram(word_list) in a file system, with a pandas whose DataFrame
\* has append or has not: [raised, df, fs], the exception raised on the way
\* if any, the rows of the dataframe, and the file system it leaves, with
\* Histogram.html written when nothing was raised.
gethistogram(files, word_list, has_append) ==
    LET bins == generatebins(getmaximumfreq(word_list))
        df0 == <<[Range |-> <<"0", "-", "5", "0", "0">>, Stars |-> NaN]>>
        df1 == df0 \o [k \in 1..Len(bins) |-> [Range |-> bins[k], Stars |-> 0]]
        rows == IF bins # <<>> /\ ~has_append
                THEN [raised |-> "AttributeError", df |-> df0]
                ELSE gethistogram_words(df1, word_list, bins, has_append)
    IN [raised |-> rows.raised,
        df |-> rows.df,
        fs |-> IF rows.raised = "" THEN files \cup {File(HistogramHtml)} ELSE files]

\* px.histogram(df, 'Range'): the number of rows per value of Range.
histogram(df) ==
    [r \in { df[k].Range : k \in DOMAIN df } |->
        Cardinality({ k \in DOMAIN df : df[k].Range = r })]

(***************************************************************************)
(* The file system: a set of entries [path, kind], a path being the        *)
(* sequence of its components and kind "file" or "dir".                    *)
(***************************************************************************)
\* Path(p).suffix: the last component from its last dot on, '' when it has
\* no dot, starts with its only dot or ends with a dot.
suffix(path) ==
    LET name == path[Len(path)]
        dots == { k \in DOMAIN name : name[k] = "." }
    IN IF dots = {} THEN <<>>
       ELSE LET i == CHOOSE k \in dots : \A j \in dots : j <= k
            IN IF 1 < i /\ i < Len(name) THEN SubSeq(name, i, Len(name)) ELSE <<>>

\* Path(directory).glob("*"): the entries directly inside the directory.
glob(files, directory) ==
    { f \in files : /\ Len(f.path) = Len(directory) + 1
                    /\ SubSeq(f.path, 1, Len(directory)) = directory }

\* clean_dir without its f.is_file() test.
clean_dir_any_entry(files, directory, keep_extensions) ==
    LET keep == IF ~keep_extensions.given \/ keep_extensions.list = <<>>
                THEN <<>>
                ELSE keep_extensions.list
    IN files \ { f \in glob(files, directory) : suffix(f.path) \notin set(keep) }

\* clean_dir(directory, keep_extensions): the file system it leaves.
\* keep_extensions is [given, list]: given = FALSE is the omitted argument.
clean_dir(files, directory, keep_extensions) ==
    LET keep == IF ~keep_extensions.given \/ keep_extensions.list = <<>>
                THEN <<>>
                ELSE keep_extensions.list
    IN files \ { f \in glob(files, directory) :
                    f.kind = "file" /\ suffix(f.path) \notin set(keep) }

\* mkdir -p path
mkdir_p(files, path) ==
    files \cup { [path |-> SubSeq(path, 1, k), kind |-> "dir"] : k \in 1..Len(path) }

UPLOAD_FOLDER == << <<"u", "p">> >>
Filenames ==
    { <<"u", "p", "/", "b", ".", "e", "p", "u", "b">>,
      <<"u", "p", "/", "b", ".", "t", "x", "t">>,
      <<"u", "p", "/", "b", ".", "p", "d", "f">> }
EPUB == <<"e", "p", "u", "b">>
TXT == <<"t", "x", "t">>
KeepJsonJpgPng ==
    [given |-> TRUE,
     list |-> << <<".", "j", "s", "o", "n">>, <<".", "j", "p", "g">>, <<".", "p", "n", "g">> >>]
KeepOmitted == [given |-> FALSE, list |-> <<>>]

\* filename.split('.')[-1]
extension_of(filename) == getitem(split(filename, "."), -1)

(***************************************************************************)
(* process_file and what it calls.                                         *)
(***************************************************************************)
\* sha256sum(filename): mmap.mmap(f.fileno(), 0) raises ValueError on an
\* empty file. A .txt file is its text; an archive is never empty. The
\* digest stands for the hex string (one file per behaviour).
sha256sum(filename, txt) ==
    IF extension_of(filename) = TXT /\ txt = <<>>
    THEN [raised |-> "ValueError", digest |-> <<>>]
    ELSE [raised |-> "", digest |-> <<"c", "0", "f", "e">>]

\* f'static/books/{file_hash}', as a path
book_dir_of(file_hash) == << <<"s", "t", "a", "t", "i", "c">>, <<"b", "o", "o", "k", "s">>, file_hash >>

\* '/'.join(path)
RECURSIVE join(_)
join(path) ==
    IF Len(path) = 1 THEN path[1]
    ELSE join(SubSeq(path, 1, Len(path) - 1)) \o <<"/">> \o path[Len(path)]

NoFuriganaEpub == <<"n", "o", "-", "f", "u", "r", "i", "g", "a", "n", "a", ".", "e", "p", "u", "b">>
NoFuriganaTxt == <<"n", "o", "-", "f", "u", "r", "i", "g", "a", "n", "a", ".", "t", "x", "t">>
CoverImageJpg == <<"c", "o", "v", "e", "r", "-", "i", "m", "a", "g", "e", ".", "j", "p", "g">>

\* process_epub: the epub without ruby text and the cover image, written to
\* book_dir under the names the code gives, the .txt file that
\* convert_epub_to_txt writes beside the epub it is given, and the Book,
\* whose image is the path of the cover image.
process_epub(files, filename, book_dir, file_hash) ==
    [fs |-> files \cup { File(Append(book_dir, NoFuriganaEpub)),
                         File(Append(book_dir, CoverImageJpg)),
                         File(Append(book_dir, NoFuriganaTxt)) },
     book |-> [title |-> "epub title", authors |-> <<"epub author">>,
               image |-> join(Append(book_dir, CoverImageJpg)),
               file_hash |-> file_hash, book_dir |-> book_dir]]

\* process_txt: the Book of a .txt file.
process_txt(files, filename, book_dir, file_hash) ==
    [fs |-> files,
     book |-> [title |-> "b", authors |-> <<>>, image |-> <<>>,
               file_hash |-> file_hash, book_dir |-> book_dir]]

\* process_file(filename): [raised, fs, book]
process_file(files, filename, txt) ==
    LET h == sha256sum(filename, txt)
        book_dir == book_dir_of(h.digest)
        made == mkdir_p(files, book_dir)
    IN IF h.raised # "" THEN [raised |-> h.raised, fs |-> files, book |-> NoData]
       ELSE IF extension_of(filename) = EPUB
            THEN [raised |-> ""] @@ process_epub(made, filename, book_dir, h.digest)
       ELSE IF extension_of(filename) = TXT
            THEN [raised |-> ""] @@ process_txt(made, filename, book_dir, h.digest)
       ELSE [raised |-> "ValueError", fs |-> made, book |-> NoData]

(***************************************************************************)
(* analyse_ebook.                                                          *)
(***************************************************************************)
\* get_frequency(word, frequency_lists): the word's entry in every list
\* that has one.
get_frequency(word, lists) ==
    [k \in { k \in DOMAIN lists : word \in DOMAIN lists[k] } |-> lists[k][word]]

\* sorted([(x, items.count(x)) for x in unique], key=..., reverse=True),
\* unique being iterated in the order `order`.
with_uses(items, order) ==
    sorted([k \in DOMAIN order |-> <<order[k], count(items, order[k])>>])

\* The comprehension with count <= 2 for its condition.
RECURSIVE used_once_or_twice(_)
used_once_or_twice(uses) ==
    IF uses = <<>> THEN <<>>
    ELSE (IF uses[1][2] <= 2 THEN <<uses[1][1]>> ELSE <<>>) \o used_once_or_twice(Tail(uses))

\* [x for x, count in with_uses if count == 1]
RECURSIVE used_once_of(_)
used_once_of(uses) ==
    IF uses = <<>> THEN <<>>
    ELSE (IF uses[1][2] = 1 THEN <<uses[1][1]>> ELSE <<>>) \o used_once_of(Tail(uses))

\* The book_data of analyse_ebook for a text, its tokens and the orders in
\* which the two sets of distinct characters and words are iterated.
book_data_of(book, txt, words, lists, char_order, word_order) ==
    LET chars == txt
        unique_chars == set(txt)
        chars_with_uses == with_uses(chars, char_order)
        chars_used_once == used_once_of(chars_with_uses)
        unique_words == set(words)
        words_with_uses == with_uses(words, word_order)
        used_once == used_once_of(words_with_uses)
        word_list == [k \in DOMAIN words_with_uses |->
                         [word |-> words_with_uses[k][1],
                          ocurrences |-> words_with_uses[k][2],
                          frequency |-> get_frequency(words_with_uses[k][1], lists)]]
        char_list == [k \in DOMAIN chars_with_uses |->
                         [character |-> chars_with_uses[k][1],
                          occurences |-> chars_with_uses[k][2]]]
    IN [title |-> book.title,
        authors |-> book.authors,
        image |-> book.image,
        n_words |-> Len(words),
        n_words_unique |-> Cardinality(unique_words),
        n_words_used_once |-> Len(used_once),
        n_chars |-> Len(chars),
        n_chars_unique |-> Cardinality(unique_chars),
        n_chars_used_once |-> Len(chars_used_once),
        words |-> word_list,
        chars |-> char_list,
        file_hash |-> book.file_hash]

BookDataJson == <<"b", "o", "o", "k", "_", "d", "a", "t", "a", ".", "j", "s", "o", "n">>

\* One call of analyse_ebook(filename), with a pandas whose DataFrame has
\* append or has not: [raised, fs, written, book_data, df].
\* written: book_data.json was written; df: the rows of the histogram, when
\* gethistogram got as far as drawing it.
analyse_ebook_call(files, filename, txt, words, lists, char_order, word_order, has_append) ==
    LET p == process_file(files, filename, txt)
    IN IF p.raised # ""
       THEN [raised |-> p.raised, fs |-> p.fs, written |-> FALSE,
             book_data |-> NoData, df |-> <<>>]
       ELSE LET book_data == book_data_of(p.book, txt, words, lists, char_order, word_order)
                fs1 == p.fs \cup { File(Append(p.book.book_dir, BookDataJson)) }
                fs2 == clean_dir(fs1, p.book.book_dir, KeepJsonJpgPng)
                fs3 == clean_dir(fs2, UPLOAD_FOLDER, KeepOmitted)
                h == gethistogram(fs3, book_data.words, has_append)
            IN [raised |-> h.raised, fs |-> h.fs, written |-> TRUE,
                book_data |-> book_data, df |-> h.df]

(***************************************************************************)
(* State.                                                                  *)
(***************************************************************************)
VARIABLES
    filename,         \* the uploaded file analyse_ebook is called with
    text,             \* the text of the book (book.path read as UTF-8)
    tokens,           \* parse_sentence(text, mt)
    frequency_lists,  \* get_all_frequency_lists()
    dataframe_append, \* the installed pandas has DataFrame.append (pandas < 2.0)
    fs,               \* the file system
    outcome,          \* of the last call: "none", "returned" or the exception
    returned,         \* the value the last call returned, NoData if it raised
    book_json,        \* the content of book_dir/book_data.json
    prev_json,        \* its content before the last call wrote it
    histogram_df,     \* the rows Histogram.html was drawn from, <<>> if none
    maximum_num,      \* argument of generatebins
    freq_num,         \* argument of getbins
    bins,             \* result of generatebins
    bin_index,        \* result of getbins
    directory,        \* argument of clean_dir
    keep_extensions,  \* argument of clean_dir
    fs_before,        \* the file system when clean_dir was called
    stage             \* how far the calls of the helper functions have got

vars == <<filename, text, tokens, frequency_lists, dataframe_append, fs, outcome, returned,
          book_json, prev_json, histogram_df, maximum_num, freq_num, bins,
          bin_index, directory, keep_extensions, fs_before, stage>>

inputVars == <<filename, text, tokens, frequency_lists, dataframe_append>>
analysisVars == <<outcome, returned, book_json, prev_json, histogram_df>>
binVars == <<maximum_num, freq_num, bins, bin_index>>
cleanVars == <<directory, keep_extensions, fs_before>>

UploadDir == [path |-> UPLOAD_FOLDER, kind |-> "dir"]

NoAnalysis ==
    /\ filename = <<"u", "p", "/", "b", ".", "t", "x", "t">>
    /\ text = <<>>
    /\ tokens = <<>>
    /\ frequency_lists = [netflix |-> <<>>]
    /\ dataframe_append = TRUE
    /\ outcome = "none"
    /\ returned = NoData
    /\ book_json = NoData
    /\ prev_json = NoData
    /\ histogram_df = <<>>

NoBins ==
    /\ maximum_num = 0
    /\ freq_num = 0
    /\ bins = <<>>
    /\ bin_index = -1

NoClean ==
    /\ directory = UPLOAD_FOLDER
    /\ keep_extensions = KeepOmitted
    /\ fs_before = {}

(***************************************************************************)
(* The analysis of an uploaded book.                                       *)
(***************************************************************************)
Init ==
    /\ filename \in Filenames
    /\ text \in SeqsUpTo(Chars, MaxTextLen)
    /\ tokens \in SeqsUpTo(Words, MaxTokens)
    /\ extension_of(filename) \notin {EPUB, TXT} => text = <<>> /\ tokens = <<>>
    /\ frequency_lists \in
          { [netflix |-> f] : f \in UNION { [D -> FrequencyEntries] : D \in SUBSET Words } }
    /\ dataframe_append \in BOOLEAN
    /\ fs = {UploadDir}
    /\ outcome = "none"
    /\ returned = NoData
    /\ book_json = NoData
    /\ prev_json = NoData
    /\ histogram_df = <<>>
    /\ NoBins
    /\ NoClean
    /\ stage = "analysis"

\* The file is put into the upload folder.
Upload ==
    /\ File(split(filename, "/")) \notin fs
    /\ fs' = fs \cup {File(split(filename, "/"))}
    /\ UNCHANGED <<inputVars, analysisVars, binVars, cleanVars, stage>>

\* analyse_ebook(filename), from its first line to its return or raise. It
\* is called on a file that is there; the two sets of distinct characters
\* and words are each iterated in one of their orders.
analyse_ebook ==
    /\ File(split(filename, "/")) \in fs
    /\ \E char_order \in Enumerations(set(text)), word_order \in Enumerations(set(tokens)) :
          \E call \in { analyse_ebook_call(fs, filename, text, tokens, frequency_lists,
                                              char_order, word_order, dataframe_append) } :
             /\ fs' = call.fs
             /\ outcome' = IF call.raised = "" THEN "returned" ELSE call.raised
             /\ returned' = IF call.raised = "" THEN call.book_data ELSE NoData
             /\ book_json' = IF call.written THEN call.book_data ELSE book_json
             /\ prev_json' = IF call.written THEN book_json ELSE prev_json
             /\ histogram_df' = IF call.written /\ call.raised = "" THEN call.df
                                ELSE histogram_df
    /\ UNCHANGED <<inputVars, binVars, cleanVars, stage>>

Next == Upload \/ analyse_ebook

Spec == Init /\ [][Next]_vars

(***************************************************************************)
(* generatebins and getbins on their own.                                  *)
(***************************************************************************)
FreqNums == { BinStep * k + d : k \in 0..MaxBins, d \in {0, 1, 200, BinStep - 1} }

InitBins ==
    /\ maximum_num \in FreqNums
    /\ freq_num \in FreqNums
    /\ bins = <<>>
    /\ bin_index = -1
    /\ NoAnalysis
    /\ fs = {}
    /\ NoClean
    /\ stage = "start"

GenerateBins ==
    /\ stage = "start"
    /\ bins' = generatebins(maximum_num)
    /\ stage' = "binned"
    /\ UNCHANGED <<inputVars, analysisVars, fs, cleanVars, maximum_num, freq_num, bin_index>>

GetBins ==
    /\ stage = "binned"
    /\ bin_index' = getbins(freq_num, bins)
    /\ stage' = "indexed"
    /\ UNCHANGED <<inputVars, analysisVars, fs, cleanVars, maximum_num, freq_num, bins>>

NextBins == GenerateBins \/ GetBins

SpecBins == InitBins /\ [][NextBins]_vars

(***************************************************************************)
(* clean_dir on its own.                                                   *)
(***************************************************************************)
CleanedDir == book_dir_of(<<"c", "0", "f", "e">>)
OtherDir == << <<"o">> >>

\* The entries a file system of the model is made of.
Pool ==
    { File(Append(CleanedDir, <<"a", ".", "j", "s", "o", "n">>)),
      File(Append(CleanedDir, <<".", "j", "s", "o", "n">>)),
      File(Append(CleanedDir, <<"n">>)),
      File(Append(CleanedDir, <<"x", ".", "t", ".", "g", "z">>)),
      File(Append(CleanedDir, <<"c", ".", "j", "p", "g">>)),
      [path |-> Append(CleanedDir, <<"s">>), kind |-> "dir"],
      File(CleanedDir \o << <<"s">>, <<"e", ".", "t", "x", "t">> >>),
      [path |-> Append(CleanedDir, <<"d", ".", "t", "x", "t">>), kind |-> "dir"],
      File(Append(OtherDir, <<"o", ".", "t", "x", "t">>)) }

\* Every entry's parent is a directory of the file system.
WellFormed(files) ==
    \A f \in files : Len(f.path) > 1 =>
        [path |-> SubSeq(f.path, 1, Len(f.path) - 1), kind |-> "dir"] \in files

KeepOptions ==
    { KeepOmitted,
      [given |-> TRUE, list |-> <<>>],
      KeepJsonJpgPng,
      [given |-> TRUE, list |-> << <<".", "g", "z">> >>] }

InitClean ==
    /\ fs \in { mkdir_p(mkdir_p(P, CleanedDir), OtherDir) : P \in SUBSET Pool }
    /\ WellFormed(fs)
    /\ directory = CleanedDir
    /\ keep_extensions \in KeepOptions
    /\ fs_before = {}
    /\ NoAnalysis
    /\ NoBins
    /\ stage = "start"

\* json_filename is written, as analyse_ebook does before it cleans book_dir.
WriteBookData ==
    /\ stage = "start"
    /\ fs' = fs \cup { File(Append(directory, BookDataJson)) }
    /\ stage' = "written"
    /\ UNCHANGED <<inputVars, analysisVars, binVars, cleanVars>>

CleanDir ==
    /\ stage \in {"start", "written"}
    /\ fs_before' = fs
    /\ fs' = clean_dir(fs, directory, keep_extensions)
    /\ stage' = "cleaned"
    /\ UNCHANGED <<inputVars, analysisVars, binVars, directory, keep_extensions>>

NextClean == WriteBookData \/ CleanDir

SpecClean == InitClean /\ [][NextClean]_vars

(***************************************************************************)
(* The properties.                                                         *)
(***************************************************************************)
RECURSIVE SumOf(_)
SumOf(s) == IF s = <<>> THEN 0 ELSE s[1] + SumOf(Tail(s))

Distinct(s) == { s[i] : i \in DOMAIN s }
Occurrences(s, x) == Cardinality({ i \in DOMAIN s : s[i] = x })
Once(s) == { x \in Distinct(s) : Occurrences(s, x) = 1 }

WordOccurrences(data) == [k \in DOMAIN data.words |-> data.words[k].ocurrences]
CharOccurrences(data) == [k \in DOMAIN data.chars |-> data.chars[k].occurences]

NonIncreasing(s) == \A k \in 1..(Len(s) - 1) : s[k] >= s[k + 1]

\* C1: the occurrence counts of 'chars' add up to the number of characters
\* of the text (n_chars), those of 'words' to the number of tokens (n_words).
C1_OccurrencesAddUp ==
    book_json # NoData =>
        /\ SumOf(CharOccurrences(book_json)) = Len(text)
        /\ book_json.n_chars = Len(text)
        /\ SumOf(WordOccurrences(book_json)) = Len(tokens)
        /\ book_json.n_words = Len(tokens)

C1_Witness ==
    /\ book_json # NoData
    /\ Len(tokens) = 3
    /\ Len(book_json.words) = 2
    /\ Len(text) = 2
    /\ \E k \in DOMAIN book_json.chars : book_json.chars[k].occurences = 2

\* C2: n_words_unique is the number of distinct tokens, n_words_used_once the
\* number of distinct tokens that occur exactly once, the same for the
\* characters; every listed count is at least 1; and
\* used_once <= unique <= total for words and for characters.
C2_UniqueAndUsedOnce ==
    book_json # NoData =>
        /\ book_json.n_words_unique = Cardinality(Distinct(tokens))
        /\ book_json.n_words_used_once = Cardinality(Once(tokens))
        /\ book_json.n_chars_unique = Cardinality(Distinct(text))
        /\ book_json.n_chars_used_once = Cardinality(Once(text))
        /\ \A k \in DOMAIN book_json.words : book_json.words[k].ocurrences >= 1
        /\ \A k \in DOMAIN book_json.chars : book_json.chars[k].occurences >= 1
        /\ book_json.n_words_used_once <= book_json.n_words_unique
        /\ book_json.n_words_unique <= book_json.n_words
        /\ book_json.n_chars_used_once <= book_json.n_chars_unique
        /\ book_json.n_chars_unique <= book_json.n_chars

C2_Witness ==
    /\ book_json # NoData
    /\ book_json.n_words_used_once = 1
    /\ book_json.n_words_unique = 2
    /\ book_json.n_words = 3
    /\ book_json.n_chars_used_once = 0
    /\ book_json.n_chars_unique = 1
    /\ book_json.n_chars = 2

\* C3: 'words' and 'chars' are ordered by occurrence count, non-increasing,
\* and each distinct word and each distinct character is listed exactly once.
C3_SortedByOccurrences ==
    book_json # NoData =>
        /\ NonIncreasing(WordOccurrences(book_json))
        /\ NonIncreasing(CharOccurrences(book_json))
        /\ { book_json.words[k].word : k \in DOMAIN book_json.words } = Distinct(tokens)
        /\ Len(book_json.words) = Cardinality(Distinct(tokens))
        /\ { book_json.chars[k].character : k \in DOMAIN book_json.chars } = Distinct(text)
        /\ Len(book_json.chars) = Cardinality(Distinct(text))

C3_Witness ==
    /\ book_json # NoData
    /\ Len(book_json.words) = 2
    /\ book_json.words[1].ocurrences > book_json.words[2].ocurrences
    /\ Len(book_json.chars) = 2

\* C4: two analyses of the same (text, tokens, corpora) write the same
\* result, the order of the words and characters of equal count included.
C4_SameInputSameResult ==
    (book_json # NoData /\ prev_json # NoData) => book_json = prev_json

\* The words of a result that have a 'netflix' entry.
WithNetflix(data) ==
    { k \in DOMAIN data.words : "netflix" \in DOMAIN data.words[k].frequency }

RECURSIVE SumOver(_, _)
SumOver(f, D) ==
    IF D = {} THEN 0
    ELSE LET x == CHOOSE y \in D : TRUE IN f[x] + SumOver(f, D \ {x})

\* C5: the histogram is drawn for every word list, and the counts of its
\* bins add up to the number of words that have a 'netflix' entry.
C5_BinCountsAreTheWords ==
    outcome \in {"returned", "IndexError", "AttributeError"} =>
        /\ outcome = "returned"
        /\ SumOver(histogram(histogram_df), DOMAIN histogram(histogram_df))
              = Cardinality(WithNetflix(book_json))

\* C6: when the highest 'netflix' frequency is below the bin width, no bin
\* is generated and gethistogram does not raise.
C6_ZeroBinsNoRaise ==
    (/\ outcome \in {"returned", "IndexError", "AttributeError"}
     /\ getmaximumfreq(book_json.words) < BinStep)
        => /\ generatebins(getmaximumfreq(book_json.words)) = <<>>
           /\ outcome = "returned"

\* C9: for a book whose text has no characters and no tokens, analyse_ebook
\* returns a result with all six counts 0 and no words and no chars, and the
\* histogram step raises nothing.
C9_EmptyDocument ==
    (/\ extension_of(filename) \in {EPUB, TXT}
     /\ text = <<>>
     /\ tokens = <<>>
     /\ outcome # "none")
        => /\ outcome = "returned"
           /\ returned.n_words = 0
           /\ returned.n_words_unique = 0
           /\ returned.n_words_used_once = 0
           /\ returned.n_chars = 0
           /\ returned.n_chars_unique = 0
           /\ returned.n_chars_used_once = 0
           /\ returned.words = <<>>
           /\ returned.chars = <<>>

(***************************************************************************)
(* The bins.                                                               *)
(***************************************************************************)
BinLower(bin) == int(split(bin, "-")[1])
BinUpper(bin) == int(split(bin, "-")[2])

\* The first bin starts at 0, each bin starts where the one before it ends,
\* and each is BinStep wide.
Contiguous(bs) ==
    /\ bs # <<>> => BinLower(bs[1]) = 0
    /\ \A k \in 1..(Len(bs) - 1) : BinLower(bs[k + 1]) = BinUpper(bs[k])
    /\ \A k \in DOMAIN bs : BinUpper(bs[k]) = BinLower(bs[k]) + BinStep

\* C7 as claimed: the bins are contiguous, 500 wide, and reach from 0 to at
\* least the maximum frequency.
C7_BinsReachMaximum ==
    stage # "start" =>
        /\ Contiguous(bins)
        /\ IF bins = <<>> THEN maximum_num = 0
           ELSE BinUpper(bins[Len(bins)]) >= maximum_num

\* C7 as amended: the bins are contiguous, 500 wide, and reach from 0 to the
\* largest multiple of 500 that is not above the maximum frequency: the last
\* upper edge is <= the maximum and > the maximum - 500, and there is no bin
\* when the maximum is below 500.
C7_BinsReachLastMultiple ==
    stage # "start" =>
        /\ Contiguous(bins)
        /\ IF bins = <<>> THEN maximum_num < BinStep
           ELSE /\ BinUpper(bins[Len(bins)]) <= maximum_num
                /\ maximum_num < BinUpper(bins[Len(bins)]) + BinStep

C7_Witness ==
    /\ stage = "binned"
    /\ maximum_num = 1200
    /\ bins = << <<"0", "-", "5", "0", "0">>, <<"5", "0", "0", "-", "1", "0", "0", "0">> >>

\* C8: on a non-empty list of bins, getbins returns the index of the one bin
\* whose [lower, upper) holds the value, and the index of the last bin when
\* the value is at or above every upper edge.
C8_GetbinsFindsTheBin ==
    (stage = "indexed" /\ bins # <<>>) =>
        LET holders == { k \in 0..(Len(bins) - 1) :
                            /\ BinLower(bins[k + 1]) <= freq_num
                            /\ freq_num < BinUpper(bins[k + 1]) }
        IN /\ Cardinality(holders) <= 1
           /\ holders # {} => bin_index \in holders
           /\ (\A k \in DOMAIN bins : freq_num >= BinUpper(bins[k]))
                 => bin_index = Len(bins) - 1

C8_Witness ==
    /\ stage = "indexed"
    /\ maximum_num = 1200
    /\ freq_num = 1200
    /\ Len(bins) = 2
    /\ bin_index = 1

(***************************************************************************)
(* clean_dir.                                                              *)
(***************************************************************************)
DirectlyInside(f, dir) ==
    Len(f.path) = Len(dir) + 1 /\ SubSeq(f.path, 1, Len(dir)) = dir

Kept(keep) == IF keep.given THEN { keep.list[k] : k \in DOMAIN keep.list } ELSE {}

\* C10: clean_dir deletes the regular files directly inside the directory
\* whose suffix is not in keep_extensions, all of them and nothing else;
\* with keep_extensions omitted or empty no regular file is left directly
\* inside; and a book_data.json written before
\* clean_dir(book_dir, ['.json', '.jpg', '.png']) is still there after it.
C10_CleanDirFrame ==
    stage = "cleaned" =>
        /\ fs \subseteq fs_before
        /\ \A f \in fs_before :
              f \notin fs <=> /\ DirectlyInside(f, directory)
                              /\ f.kind = "file"
                              /\ suffix(f.path) \notin Kept(keep_extensions)
        /\ Kept(keep_extensions) = {} =>
              ~ \E f \in fs : DirectlyInside(f, directory) /\ f.kind = "file"
        /\ (/\ keep_extensions = KeepJsonJpgPng
            /\ File(Append(directory, BookDataJson)) \in fs_before)
              => File(Append(directory, BookDataJson)) \in fs

C10_Witness ==
    /\ stage = "cleaned"
    /\ keep_extensions = KeepJsonJpgPng
    /\ File(Append(directory, BookDataJson)) \in fs
    /\ File(Append(directory, <<"n">>)) \in fs_before \ fs
    /\ File(Append(directory, <<".", "j", "s", "o", "n">>)) \in fs_before \ fs
    /\ File(Append(directory, <<"x", ".", "t", ".", "g", "z">>)) \in fs_before \ fs
    /\ File(Append(directory, <<"c", ".", "j", "p", "g">>)) \in fs
    /\ [path |-> Append(directory, <<"d", ".", "t", "x", "t">>), kind |-> "dir"] \in fs
    /\ File(directory \o << <<"s">>, <<"e", ".", "t", "x", "t">> >>) \in fs
    /\ File(Append(OtherDir, <<"o", ".", "t", "x", "t">>)) \in fs

====
